---------------------------- MODULE Spec2Model ----------------------------
(***************************************************************************)
(* Model of the referral e-mail sender: the Composer (src/app/page.tsx     *)
(* lines 1-266, the client form) and the Dispatcher (src/app/page.tsx      *)
(* lines 268-432, the POST handler of /api/send-email).                    *)
(*                                                                         *)
(* A JavaScript string is a sequence of one-character strings, so that     *)
(* split, trim and the regular expression work on characters.  A           *)
(* dynamically typed JavaScript value is a record [t, s, l]: its type tag, *)
(* its characters when it is a string, its elements when it is an array.   *)
(***************************************************************************)
EXTENDS Naturals, Sequences, FiniteSets, Bags, TLC

VARIABLES
    \* ---- the predicate on its own (SpecEmail)
    email,      \* the text tested
    accepted,   \* isValidEmail(email)
    \* ---- Dispatcher: one invocation of POST
    env,        \* process.env: SMTP_HOST, SMTP_USER, SMTP_PASS
    req,        \* the request being handled
    pc,         \* "idle" | "sending" (awaiting sendMail) | "done"
    resp,       \* the NextResponse returned
    mail,       \* the message handed to transporter.sendMail
    created,    \* nodemailer.createTransport was called for this request
    sendCalls,  \* sendMail calls made for this request
    outcome,    \* what the transport answered
    \* ---- Composer: the state of Home and of its TagInput
    from, to, subject, input, isSending, status,
    inflight,   \* the bag of POSTs issued by fetch and not yet answered
    res,        \* what the awaits of the onSubmit call that ended last produced
                \* (res.status, data.error); none in a call that has just begun
    ev          \* the handler that ran last

emailVars == <<email, accepted>>
dispVars == <<env, req, pc, resp, mail, created, sendCalls, outcome>>
compVars == <<from, to, subject, input, isSending, status, inflight, res, ev>>
vars == <<emailVars, dispVars, compVars>>

-----------------------------------------------------------------------------
(* Bounds of the model *)

\* longest text typed into the predicate's specification
MaxLen == 7
\* most bytes in an attachment
MaxBytes == 3
\* most attachments in a request
MaxAttachments == 2
\* most POSTs of the Composer awaiting their response
MaxInflight == 2

-----------------------------------------------------------------------------
(* Characters and JavaScript string operations *)

LowerCase ==
    {"a","b","c","d","e","f","g","h","i","j","k","l","m",
     "n","o","p","q","r","s","t","u","v","w","x","y","z"}
UpperCase ==
    {"A","B","C","D","E","F","G","H","I","J","K","L","M",
     "N","O","P","Q","R","S","T","U","V","W","X","Y","Z"}
Letters == LowerCase \cup UpperCase
Digits == {"0","1","2","3","4","5","6","7","8","9"}
\* [a-zA-Z0-9_'^&+\-]
LocalChars == Letters \cup Digits \cup {"_", "'", "^", "&", "+", "-"}
\* [a-zA-Z0-9-]
DomainChars == Letters \cup Digits \cup {"-"}
\* what String.prototype.trim removes
Whitespace == {" ", "\t", "\n", "\r"}

SetMin(S) == CHOOSE x \in S : \A y \in S : x <= y
SetMax(S) == CHOOSE x \in S : \A y \in S : y <= x
Range(s) == {s[i] : i \in 1..Len(s)}

\* String.prototype.trim
Trim(s) ==
    LET keep == {i \in 1..Len(s) : s[i] \notin Whitespace}
    IN  IF keep = {} THEN <<>> ELSE SubSeq(s, SetMin(keep), SetMax(keep))

\* String.prototype.split(sep) for a one-character separator: "" gives [""]
RECURSIVE Split(_, _)
Split(s, sep) ==
    LET at == {i \in 1..Len(s) : s[i] = sep}
    IN  IF at = {} THEN <<s>>
        ELSE <<SubSeq(s, 1, SetMin(at) - 1)>>
                 \o Split(SubSeq(s, SetMin(at) + 1, Len(s)), sep)

\* Array.prototype.join(sep) of an array of strings
RECURSIVE Join(_, _)
Join(l, sep) ==
    IF l = <<>> THEN <<>>
    ELSE IF Len(l) = 1 THEN l[1]
    ELSE l[1] \o <<sep>> \o Join(Tail(l), sep)

\* .split(",").map((v) => v.trim()).filter(Boolean)
SplitTrimFilter(s) ==
    LET parts == Split(s, ",")
        trimmed == [i \in 1..Len(parts) |-> Trim(parts[i])]
    IN  SelectSeq(trimmed, LAMBDA p : p # <<>>)

-----------------------------------------------------------------------------
(* isValidEmail: the regular expression                                     *)
(*   ^L+(?:\.L+)*@(?:D+\.)+T{2,}$   L = LocalChars, D = DomainChars,         *)
(*                                  T = Letters                              *)
(* as the automaton that reads it left to right.                            *)

RegexStep(q, c) ==
    CASE q = "start" -> IF c \in LocalChars THEN {"local"} ELSE {}
      [] q = "local" -> (IF c \in LocalChars THEN {"local"} ELSE {})
                          \cup (IF c = "." THEN {"ldot"} ELSE {})
                          \cup (IF c = "@" THEN {"at"} ELSE {})
      [] q = "ldot"  -> IF c \in LocalChars THEN {"local"} ELSE {}
      [] q = "at"    -> IF c \in DomainChars THEN {"label"} ELSE {}
      [] q = "label" -> (IF c \in DomainChars THEN {"label"} ELSE {})
                          \cup (IF c = "." THEN {"ddot"} ELSE {})
      [] q = "ddot"  -> (IF c \in DomainChars THEN {"label"} ELSE {})
                          \cup (IF c \in Letters THEN {"tld1"} ELSE {})
      [] q = "tld1"  -> IF c \in Letters THEN {"tld2"} ELSE {}
      [] q = "tld2"  -> IF c \in Letters THEN {"tld2"} ELSE {}
      [] OTHER -> {}

RECURSIVE RegexRun(_, _, _)
RegexRun(Q, s, i) ==
    IF i > Len(s) \/ Q = {} THEN Q
    ELSE RegexRun(UNION {RegexStep(q, s[i]) : q \in Q}, s, i + 1)

\* EMAIL_RE.test(s): anchored at both ends
RegexTest(s) == "tld2" \in RegexRun({"start"}, s, 1)

\* a copy of the predicate that tests the text as given
IsValidEmail_NoTrim(e) == RegexTest(e)

\* isValidEmail (the client's and the server's copies are the same text)
IsValidEmail(e) == RegexTest(Trim(e))

-----------------------------------------------------------------------------
(* The predicate on its own: a text is typed one character at a time and    *)
(* tested after every keystroke, as the From field does on every render.    *)

EmailAlphabet == {"a", "1", "_", ".", "@", " "}

EmailInit ==
    /\ email = <<>>
    /\ accepted = IsValidEmail(<<>>)

TypeChar ==
    /\ Len(email) < MaxLen
    /\ \E c \in EmailAlphabet :
          /\ email' = Append(email, c)
          /\ accepted' = IsValidEmail(email')


-----------------------------------------------------------------------------
(* JavaScript values *)

V(t, s, l) == [t |-> t, s |-> s, l |-> l]
Undef == V("undef", <<>>, <<>>)
Null == V("null", <<>>, <<>>)
Str(s) == V("str", s, <<>>)
\* a non-zero number, e.g. 5
Num == V("num", <<>>, <<>>)
\* an array; its elements are values
Arr(l) == V("arr", <<>>, l)
\* a File form entry (its bytes do not matter where a text field is read)
FileEntry == V("file", <<>>, <<>>)

\* what `!v` tests
Truthy(v) ==
    CASE v.t \in {"undef", "null"} -> FALSE
      [] v.t = "str" -> v.s # <<>>
      [] OTHER -> TRUE

\* a || b
OrElse(a, b) == IF Truthy(a) THEN a ELSE b

ObjectFileText ==
    <<"[","o","b","j","e","c","t"," ","F","i","l","e","]">>

\* String(v) of a truthy form entry
JsString(v) == IF v.t = "str" THEN v.s ELSE ObjectFileText

\* an array of strings as a value
StrArr(l) == Arr([i \in 1..Len(l) |-> Str(l[i])])

\* a thrown value that is an Error
Error(m) == [isError |-> TRUE, message |-> m]

-----------------------------------------------------------------------------
(* Dispatcher: parseCommaOrArray and parseRequest *)

RECURSIVE Flatten(_)
Flatten(ll) == IF ll = <<>> THEN <<>> ELSE Head(ll) \o Flatten(Tail(ll))

\* a reading of the field that takes the whole text as one address
ParseCommaOrArray_NoSplit(v) ==
    IF ~Truthy(v) THEN <<>>
    ELSE IF v.t = "arr" THEN
        SelectSeq([i \in 1..Len(v.l) |->
                      IF v.l[i].t = "str" THEN Trim(v.l[i].s) ELSE <<>>],
                  LAMBDA p : p # <<>>)
    ELSE SelectSeq(<<Trim(IF v.t = "str" THEN v.s ELSE <<>>)>>, LAMBDA p : p # <<>>)

\* parseCommaOrArray(value): the list of strings it returns
ParseCommaOrArray(v) ==
    IF ~Truthy(v) THEN <<>>
    ELSE IF v.t = "arr" THEN
        LET texts == [i \in 1..Len(v.l) |->
                         IF v.l[i].t = "str" THEN v.l[i].s ELSE <<>>]
            parts == Flatten([i \in 1..Len(texts) |-> Split(texts[i], ",")])
            trimmed == [i \in 1..Len(parts) |-> Trim(parts[i])]
        IN  SelectSeq(trimmed, LAMBDA p : p # <<>>)
    ELSE SplitTrimFilter(IF v.t = "str" THEN v.s ELSE <<>>)

NoFields == [from |-> Undef, to |-> Undef, subject |-> Undef, bodyHtml |-> Undef]

Parsed(f, a) == [threw |-> FALSE, error |-> Error(""), fields |-> f, attachments |-> a]
ParseThrew(m) == [threw |-> TRUE, error |-> Error(m), fields |-> NoFields, attachments |-> <<>>]

-----------------------------------------------------------------------------
(* Buffer.from(text, "base64"): bytes are numbers 0..255, the text is a      *)
(* sequence of characters of the base64 alphabet and "=" padding.           *)

B64Alphabet ==
    <<"A","B","C","D","E","F","G","H","I","J","K","L","M",
      "N","O","P","Q","R","S","T","U","V","W","X","Y","Z",
      "a","b","c","d","e","f","g","h","i","j","k","l","m",
      "n","o","p","q","r","s","t","u","v","w","x","y","z",
      "0","1","2","3","4","5","6","7","8","9","+","/">>

\* the 6-bit value of a base64 character ("-" and "_" are the URL-safe
\* spellings of "+" and "/", which the decoder accepts too)
B64Value(c) ==
    IF c = "-" THEN 62
    ELSE IF c = "_" THEN 63
    ELSE (CHOOSE i \in 1..64 : B64Alphabet[i] = c) - 1

B64IsDigit(c) == c \in Range(B64Alphabet) \cup {"-", "_"}

\* the sextets of the text: the decoder skips what is no base64 character
\* and stops at the first "="
RECURSIVE B64Sextets(_)
B64Sextets(text) ==
    IF text = <<>> \/ Head(text) = "=" THEN <<>>
    ELSE IF B64IsDigit(Head(text))
         THEN <<B64Value(Head(text))>> \o B64Sextets(Tail(text))
         ELSE B64Sextets(Tail(text))

\* four sextets give three bytes; a last group of two gives one byte, of
\* three gives two bytes, and a single left-over sextet gives none
RECURSIVE B64Bytes(_)
B64Bytes(x) ==
    IF Len(x) < 2 THEN <<>>
    ELSE LET b1 == (x[1] * 4 + x[2] \div 16) % 256
         IN  IF Len(x) = 2 THEN <<b1>>
             ELSE LET b2 == ((x[2] % 16) * 16 + x[3] \div 4) % 256
                  IN  IF Len(x) = 3 THEN <<b1, b2>>
                      ELSE <<b1, b2, ((x[3] % 4) * 64 + x[4]) % 256>>
                               \o B64Bytes(SubSeq(x, 5, Len(x)))

\* a decoder that drops a last group shorter than four characters
BufferFromBase64_WholeGroups(text) ==
    LET x == B64Sextets(text)
    IN  B64Bytes(SubSeq(x, 1, 4 * (Len(x) \div 4)))

BufferFromBase64(text) == B64Bytes(B64Sextets(text))

\* what a client does to put bytes into the JSON body (btoa, or
\* Buffer.toString("base64")): the standard padded encoding
RECURSIVE Base64Encode(_)
Base64Encode(b) ==
    LET ch(n) == B64Alphabet[n + 1]
    IN  IF b = <<>> THEN <<>>
        ELSE IF Len(b) = 1 THEN
            <<ch(b[1] \div 4), ch((b[1] % 4) * 16), "=", "=">>
        ELSE IF Len(b) = 2 THEN
            <<ch(b[1] \div 4), ch((b[1] % 4) * 16 + b[2] \div 16),
              ch((b[2] % 16) * 4), "=">>
        ELSE
            <<ch(b[1] \div 4), ch((b[1] % 4) * 16 + b[2] \div 16),
              ch((b[2] % 16) * 4 + b[3] \div 64), ch(b[3] % 64)>>
                \o Base64Encode(SubSeq(b, 4, Len(b)))

-----------------------------------------------------------------------------
(* Dispatcher: requests                                                     *)
(*                                                                         *)
(* A request is [enc, body, from, to, subject, bodyHtml, att]:              *)
(*   enc   "multipart" when the content-type holds multipart/form-data,     *)
(*         "json" otherwise;                                                *)
(*   body  "ok", "malformed" (formData() or json() rejects) or "null"       *)
(*         (the JSON text null);                                            *)
(*   from, to, subject, bodyHtml  what form.get(name) returns (Null, a      *)
(*         string or a File) or the JSON member (Undef when absent);        *)
(*   att   [t, items]: form.getAll("attachments") or json.attachments.      *)
(* An attachment item is [kind, filename, bytes, content, ctype]: a File    *)
(* part ("file": its name, bytes and type), a text part ("text"), or a JSON *)
(* object ("obj": content is the member `content`, and bytes are the bytes  *)
(* the client encoded into it).                                             *)

FilePart(name, bytes, ctype) ==
    [kind |-> "file", filename |-> name, bytes |-> bytes,
     content |-> Undef, ctype |-> ctype]
TextPart ==
    [kind |-> "text", filename |-> <<>>, bytes |-> <<>>,
     content |-> Undef, ctype |-> <<>>]
JsonAttachment(name, bytes, content, ctype) ==
    [kind |-> "obj", filename |-> name, bytes |-> bytes,
     content |-> content, ctype |-> ctype]

NoAtt == [t |-> "undef", items |-> <<>>]
AttList(items) == [t |-> "arr", items |-> items]
\* json.attachments given as a non-empty string
AttText == [t |-> "str", items |-> <<>>]

Request(enc, body, f, t, s, b, a) ==
    [enc |-> enc, body |-> body, from |-> f, to |-> t, subject |-> s,
     bodyHtml |-> b, att |-> a]

\* an attachment as handed to the transport
Attachment(name, bytes, ctype) ==
    [filename |-> name, content |-> bytes, contentType |-> ctype]

\* entry.type || undefined, and a.contentType
ContentType(ctype) == IF ctype = <<>> THEN Undef ELSE Str(ctype)

\* the multipart branch's loop over form.getAll("attachments")
MultipartAttachments(items) ==
    LET files == SelectSeq(items, LAMBDA e : e.kind = "file")
    IN  [i \in 1..Len(files) |->
            Attachment(files[i].filename, files[i].bytes,
                       ContentType(files[i].ctype))]

\* (json.attachments || []).map(...)
JsonAttachments(items) ==
    [i \in 1..Len(items) |->
        Attachment(items[i].filename, BufferFromBase64(items[i].content.s),
                   ContentType(items[i].ctype))]

ParseRequest(r) ==
    IF r.enc = "multipart" THEN
        IF r.body # "ok" THEN ParseThrew("Failed to parse body as FormData.")
        ELSE Parsed([from |-> Str(JsString(OrElse(r.from, Str(<<>>)))),
                     to |-> StrArr(ParseCommaOrArray(r.to)),
                     subject |-> Str(JsString(OrElse(r.subject, Str(<<>>)))),
                     bodyHtml |-> Str(JsString(OrElse(r.bodyHtml, Str(<<>>))))],
                    MultipartAttachments(r.att.items))
    ELSE IF r.body = "null" THEN
        ParseThrew("Cannot read properties of null (reading 'from')")
    ELSE
        \* an unparseable body is caught and read as {}
        LET json == IF r.body = "ok" THEN r
                    ELSE Request("json", "ok", Undef, Undef, Undef, Undef, NoAtt)
            fields == [from |-> OrElse(json.from, Str(<<>>)),
                       to |-> OrElse(json.to, Arr(<<>>)),
                       subject |-> OrElse(json.subject, Str(<<>>)),
                       bodyHtml |-> OrElse(json.bodyHtml, Str(<<>>))]
        IN  IF json.att.t = "undef" THEN Parsed(fields, <<>>)
            ELSE IF json.att.t # "arr" THEN
                ParseThrew("(json.attachments || []).map is not a function")
            ELSE IF \E i \in 1..Len(json.att.items) :
                        json.att.items[i].content.t # "str" THEN
                ParseThrew("The first argument must be of type string")
            ELSE Parsed(fields, JsonAttachments(json.att.items))

-----------------------------------------------------------------------------
(* Dispatcher: POST *)

MsgFrom == "Valid 'from' email is required"
MsgTo == "Provide at least one valid 'to' email"
MsgConfig == "SMTP credentials are not configured on the server"
MsgUnexpected == "Unexpected error while sending email"

Response(code, success, id, error) ==
    [status |-> code, success |-> success, messageId |-> id, error |-> error]
NoResp == Response(0, FALSE, "", "")
NoMail ==
    [from |-> <<>>, to |-> <<>>, recipients |-> <<>>, subject |-> Undef,
     html |-> Undef, attachments |-> <<>>]
NoOutcome == [kind |-> "none", messageId |-> "", error |-> Error("")]

\* the catch block of POST
CatchResponse(err) ==
    Response(500, FALSE, "", IF err.isError THEN err.message ELSE MsgUnexpected)

\* to.every(isValidEmail): "true", "false", or "throw" when email.trim is
\* called on an element that is no string
RECURSIVE EveryValidEmail(_)
EveryValidEmail(l) ==
    IF l = <<>> THEN "true"
    ELSE IF Head(l).t # "str" THEN "throw"
    ELSE IF ~IsValidEmail(Head(l).s) THEN "false"
    ELSE EveryValidEmail(Tail(l))

\* !to.length: a value without a length has length undefined
NoLength(v) ==
    CASE v.t = "arr" -> Len(v.l) = 0
      [] v.t = "str" -> Len(v.s) = 0
      [] OTHER -> TRUE

\* a configuration test that forgets the password
ConfigMissing_NoPass(e) == ~Truthy(e.host) \/ ~Truthy(e.user)

\* !host || !user || !pass
ConfigMissing(e) == ~Truthy(e.host) \/ ~Truthy(e.user) \/ ~Truthy(e.pass)

Respond(r) == [kind |-> "respond", resp |-> r, mail |-> NoMail]
Send(m) == [kind |-> "send", resp |-> NoResp, mail |-> m]

\* POST up to the await of transporter.sendMail: either the response it
\* returns, or the message it hands to the transport it has created
PostUntilSend(r, e) ==
    LET p == ParseRequest(r)
        f == p.fields
    IN  IF p.threw THEN Respond(CatchResponse(p.error))
        ELSE IF ~Truthy(f.from) THEN Respond(Response(400, FALSE, "", MsgFrom))
        ELSE IF f.from.t # "str" THEN
            Respond(CatchResponse(Error("email.trim is not a function")))
        ELSE IF ~IsValidEmail(f.from.s) THEN
            Respond(Response(400, FALSE, "", MsgFrom))
        ELSE IF NoLength(f.to) THEN Respond(Response(400, FALSE, "", MsgTo))
        ELSE IF f.to.t # "arr" THEN
            Respond(CatchResponse(Error("to.every is not a function")))
        ELSE IF EveryValidEmail(f.to.l) = "throw" THEN
            Respond(CatchResponse(Error("email.trim is not a function")))
        ELSE IF EveryValidEmail(f.to.l) = "false" THEN
            Respond(Response(400, FALSE, "", MsgTo))
        ELSE IF ConfigMissing(e) THEN
            Respond(Response(500, FALSE, "", MsgConfig))
        ELSE LET list == [i \in 1..Len(f.to.l) |-> f.to.l[i].s]
             IN  Send([from |-> f.from.s,
                       to |-> Join(list, ","),
                       recipients |-> list,
                       subject |-> f.subject,
                       html |-> OrElse(f.bodyHtml, Str(<<>>)),
                       attachments |-> p.attachments])

\* a handler that forwards a fixed text instead of the failure's message
AfterSend_Generic(o) ==
    IF o.kind = "ok" THEN Response(200, TRUE, o.messageId, "")
    ELSE Response(500, FALSE, "", MsgUnexpected)

\* a handler that answers 200 whatever the transport said
AfterSend_AlwaysOk(o) == Response(200, TRUE, o.messageId, "")

\* POST after the await: the success response, or the catch block
AfterSend(o) ==
    IF o.kind = "ok" THEN Response(200, TRUE, o.messageId, "")
    ELSE CatchResponse(o.error)

-----------------------------------------------------------------------------
(* Dispatcher: the requests and environments explored *)

AddrA == <<"a","@","x",".","c","o">>
AddrB == <<"b","@","x",".","c","o">>
Bad == <<"b","a","d">>
NotAnEmail == <<"n","o","t","-","a","n","-","e","m","a","i","l">>
Comma == <<",">>
Space == <<" ">>
Hello == <<"h","i">>
NameF == <<"f",".","t","x","t">>
NameG == <<"g",".","p","n","g">>
NameH == <<"h">>
TypePng == <<"i","m","a","g","e","/","p","n","g">>

\* sequences over S of length at most n
RECURSIVE SeqsUpTo(_, _)
SeqsUpTo(S, n) ==
    IF n = 0 THEN {<<>>}
    ELSE LET shorter == SeqsUpTo(S, n - 1)
         IN  shorter \cup {Append(q, x) : q \in shorter, x \in S}

ByteValues == {0, 77, 255}
ByteSeqs == SeqsUpTo(ByteValues, MaxBytes)

EnvValues == {Undef, Str(<<>>), Str(<<"s">>)}
Envs == [host : EnvValues, user : EnvValues, pass : EnvValues]
Configured == [host |-> Str(<<"s">>), user |-> Str(<<"s">>), pass |-> Str(<<"s">>)]

MultipartFrom ==
    {Null, Str(AddrA), Str(Bad), Str(Space \o AddrA), FileEntry}
MultipartTo ==
    {Null, Str(AddrA \o Comma \o AddrB), Str(AddrB), Str(Bad),
     Str(Space \o AddrA \o Space \o Comma \o Space \o Comma \o AddrB),
     Str(Comma), Str(AddrA \o Comma \o AddrA), Str(AddrA \o Comma \o Bad),
     FileEntry}
MultipartAtt ==
    {AttList(<<>>), AttList(<<FilePart(NameF, <<77>>, <<>>)>>),
     AttList(<<TextPart>>)}

JsonFrom ==
    {Undef, Str(AddrA), Str(NotAnEmail), Str(Space \o AddrA), Num}
JsonTo ==
    {Undef, Str(AddrA \o Comma \o AddrB), Str(Bad), Num, Arr(<<>>),
     StrArr(<<AddrA, AddrB>>), StrArr(<<AddrA \o Comma \o AddrB>>),
     StrArr(<<Space \o AddrA>>), StrArr(<<AddrA, AddrA>>),
     StrArr(<<AddrA, <<>>>>), Arr(<<Str(Bad), Num>>), Arr(<<Num>>)}
JsonAtt ==
    {NoAtt, AttText,
     AttList(<<JsonAttachment(NameF, <<77>>, Str(Base64Encode(<<77>>)), <<>>)>>),
     AttList(<<JsonAttachment(NameF, <<>>, Undef, <<>>)>>)}

\* requests that vary the shape of the fields
FieldRequests ==
    {Request("multipart", "ok", f, t, s, b, a) :
        f \in MultipartFrom, t \in MultipartTo, s \in {Null, Str(Hello)},
        b \in {Null, Str(Hello)}, a \in MultipartAtt}
    \cup
    {Request("json", "ok", f, t, s, b, a) :
        f \in JsonFrom, t \in JsonTo, s \in {Undef, Str(Hello)},
        b \in {Undef, Str(Hello)}, a \in JsonAtt}
    \cup
    {Request(e, "malformed", Undef, Undef, Undef, Undef, NoAtt) :
        e \in {"multipart", "json"}}
    \cup
    {Request("json", "null", Undef, Undef, Undef, Undef, NoAtt)}

\* requests with valid fields that vary the attachments: every byte
\* sequence alone, and every list of a few distinct attachments
FewFiles ==
    {<<NameF, <<77>>, <<>>>>, <<NameG, <<0, 255>>, TypePng>>,
     <<NameH, <<>>, <<>>>>}
AttachmentLists ==
    {<<<<n, b, <<>>>>>> : n \in {NameF}, b \in ByteSeqs}
        \cup SeqsUpTo(FewFiles, MaxAttachments)
AttachRequests ==
    {Request("multipart", "ok", Str(AddrA), Str(AddrB), Str(Hello), Str(Hello),
             AttList([i \in 1..Len(l) |-> FilePart(l[i][1], l[i][2], l[i][3])])) :
        l \in AttachmentLists}
    \cup
    {Request("json", "ok", Str(AddrA), StrArr(<<AddrB>>), Str(Hello), Str(Hello),
             AttList([i \in 1..Len(l) |->
                         JsonAttachment(l[i][1], l[i][2],
                                        Str(Base64Encode(l[i][2])), l[i][3])])) :
        l \in AttachmentLists}

Requests == FieldRequests \cup AttachRequests

NoReq == Request("none", "ok", Undef, Undef, Undef, Undef, NoAtt)

MessageIds == {"<id-1@x.co>", "<id-2@x.co>"}
TransportErrors == {"connect ECONNREFUSED", "Invalid login: 535"}

-----------------------------------------------------------------------------
(* Dispatcher: the handler as a state machine.  Each invocation handles    *)
(* one request and shares nothing with another, so one invocation at a time *)
(* shows every behaviour of the handler.                                    *)

DispIdle ==
    /\ req = NoReq
    /\ pc = "idle"
    /\ resp = NoResp
    /\ mail = NoMail
    /\ created = FALSE
    /\ sendCalls = 0
    /\ outcome = NoOutcome

\* POST is called: parseRequest, the validation, the configuration test,
\* createTransport and the call of sendMail
Receive ==
    /\ pc = "idle"
    /\ \E r \in Requests :
          LET h == PostUntilSend(r, env)
          IN  /\ req' = r
              /\ IF h.kind = "respond"
                 THEN /\ resp' = h.resp
                      /\ pc' = "done"
                      /\ UNCHANGED <<mail, created, sendCalls>>
                 ELSE /\ created' = TRUE
                      /\ mail' = h.mail
                      /\ sendCalls' = sendCalls + 1
                      /\ pc' = "sending"
                      /\ UNCHANGED resp
    /\ UNCHANGED <<env, outcome, emailVars, compVars>>

\* sendMail resolves with the transport's info
SendMailResolve ==
    /\ pc = "sending"
    /\ \E id \in MessageIds :
          /\ outcome' = [kind |-> "ok", messageId |-> id, error |-> Error("")]
          /\ resp' = AfterSend(outcome')
    /\ pc' = "done"
    /\ UNCHANGED <<env, req, mail, created, sendCalls, emailVars, compVars>>

\* sendMail rejects: connection, authentication or provider failure
SendMailReject ==
    /\ pc = "sending"
    /\ \E m \in TransportErrors :
          /\ outcome' = [kind |-> "fail", messageId |-> "", error |-> Error(m)]
          /\ resp' = AfterSend(outcome')
    /\ pc' = "done"
    /\ UNCHANGED <<env, req, mail, created, sendCalls, emailVars, compVars>>

\* the response is returned; the next invocation starts afresh
Return ==
    /\ pc = "done"
    /\ req' = NoReq
    /\ pc' = "idle"
    /\ resp' = NoResp
    /\ mail' = NoMail
    /\ created' = FALSE
    /\ sendCalls' = 0
    /\ outcome' = NoOutcome
    /\ UNCHANGED <<env, emailVars, compVars>>

-----------------------------------------------------------------------------
(* Composer: TagInput and Home *)

AddrX == <<"x","@","y",".","c","o","m">>
AddrZ == <<"z","@","y",".","c","o","m">>
\* "x@y.com, bad, z@y.com"
TagExample == AddrX \o Comma \o Space \o Bad \o Comma \o Space \o AddrZ

\* texts of the From field: empty, an address typed after a space, no address
FromTexts == {<<>>, Space \o AddrA, Bad}
SubjectTexts == {<<>>, Space, Hello}
TagTexts == {<<>>, TagExample, AddrZ \o Comma \o AddrZ, Space \o Comma}
BodyHtml == <<"<","p",">","h","i","<","/","p",">">>

NoStatus == [type |-> "none", message |-> ""]
StatusSuccess == [type |-> "success", message |-> "Email sent successfully."]
StatusError(m) == [type |-> "error", message |-> m]
MsgFailed == "Failed to send email"
MsgFetch == "Failed to fetch"
MsgJson == "Unexpected token < in JSON at position 0"

\* what onSubmit has in hand after its awaits: a parsed answer (res.status,
\* data.error), or the rejection of fetch or of res.json()
NoRes == [kind |-> "none", status |-> 0, error |-> ""]
Answer(a) == [kind |-> "answer", status |-> a.status, error |-> a.error]
Rejected(m) == [kind |-> "rejected", status |-> 0, error |-> m]

CompIdle ==
    /\ from = <<>>
    /\ to = <<>>
    /\ subject = <<>>
    /\ input = <<>>
    /\ isSending = FALSE
    /\ status = NoStatus
    /\ inflight = EmptyBag
    /\ res = NoRes
    /\ ev = "init"

\* the loop of add that pushes every piece, valid or not, new or not
PushValid_All(next, pieces) == next \o pieces

\* for (const p of pieces) if (isValidEmail(p) && !next.includes(p)) next.push(p)
RECURSIVE PushValid(_, _)
PushValid(next, pieces) ==
    IF pieces = <<>> THEN next
    ELSE PushValid(IF IsValidEmail(Head(pieces)) /\ Head(pieces) \notin Range(next)
                   THEN Append(next, Head(pieces)) ELSE next,
                   Tail(pieces))

\* a submit test that forgets the subject
CanSubmit_NoSubject ==
    /\ IsValidEmail(from)
    /\ Len(to) > 0
    /\ \A i \in 1..Len(to) : IsValidEmail(to[i])

\* canSubmit
CanSubmit ==
    /\ IsValidEmail(from)
    /\ Len(to) > 0
    /\ \A i \in 1..Len(to) : IsValidEmail(to[i])
    /\ Len(Trim(subject)) > 0

\* a submit button that stays enabled while a request is pending
ButtonEnabled_WhileSending == ~(~CanSubmit)

\* the submit button: disabled={!canSubmit || isSending}
ButtonEnabled == ~(~CanSubmit \/ isSending)

\* the FormData that onSubmit builds, as the request the Dispatcher receives
BuildForm ==
    Request("multipart", "ok", Str(from), Str(Join(to, ",")), Str(subject),
            Str(BodyHtml), AttList(<<>>))

\* onChange of the From field
SetFrom ==
    /\ \E v \in FromTexts : from' = v
    /\ ev' = "edit"
    /\ UNCHANGED <<to, subject, input, isSending, status, inflight>>
    /\ UNCHANGED <<emailVars, dispVars, res>>

\* onChange of the Subject field
SetSubject ==
    /\ \E v \in SubjectTexts : subject' = v
    /\ ev' = "edit"
    /\ UNCHANGED <<from, to, input, isSending, status, inflight>>
    /\ UNCHANGED <<emailVars, dispVars, res>>

\* onChange of the tag input's text field
SetInput ==
    /\ \E v \in TagTexts : input' = v
    /\ ev' = "edit"
    /\ UNCHANGED <<from, to, subject, isSending, status, inflight>>
    /\ UNCHANGED <<emailVars, dispVars, res>>

\* TagInput.add: Enter, comma or blur commits the text
Add ==
    /\ LET pieces == SplitTrimFilter(input)
       IN  IF pieces = <<>>
           THEN UNCHANGED <<to, input>>
           ELSE /\ to' = PushValid(to, pieces)
                /\ input' = <<>>
    /\ ev' = "add"
    /\ UNCHANGED <<from, subject, isSending, status, inflight>>
    /\ UNCHANGED <<emailVars, dispVars, res>>

\* the x button of a tag: onChange(values.filter((x) => x !== v))
Remove ==
    /\ \E v \in Range(to) : to' = SelectSeq(to, LAMBDA x : x # v)
    /\ ev' = "remove"
    /\ UNCHANGED <<from, subject, input, isSending, status, inflight>>
    /\ UNCHANGED <<emailVars, dispVars, res>>

\* onSubmit up to the await of fetch
OnSubmit ==
    /\ IF ~CanSubmit
       THEN UNCHANGED <<isSending, status, inflight, res>>
       ELSE /\ isSending' = TRUE
            /\ status' = NoStatus
            /\ res' = NoRes
            /\ inflight' = inflight (+) SetToBag({BuildForm})
    /\ ev' = "submit"
    /\ UNCHANGED <<from, to, subject, input>>
    /\ UNCHANGED <<emailVars, dispVars>>

\* the submit button is clicked
ClickSubmit ==
    /\ ButtonEnabled
    /\ BagCardinality(inflight) < MaxInflight
    /\ OnSubmit

\* a submit event reaches the form without the button (requestSubmit, a
\* dispatched event): the handler runs in whatever state the form is in
SubmitEvent ==
    /\ BagCardinality(inflight) < MaxInflight
    /\ OnSubmit

\* onSubmit after the awaits without its finally block
Settle_NoFinally(r, a, st) ==
    /\ res' = a
    /\ status' = st
    /\ inflight' = inflight (-) SetToBag({r})
    /\ ev' = "settled"
    /\ UNCHANGED <<from, to, subject, input, isSending>>
    /\ UNCHANGED <<emailVars, dispVars>>

\* onSubmit after the awaits: try, catch and finally
Settle(r, a, st) ==
    /\ res' = a
    /\ status' = st
    /\ isSending' = FALSE
    /\ inflight' = inflight (-) SetToBag({r})
    /\ ev' = "settled"
    /\ UNCHANGED <<from, to, subject, input>>
    /\ UNCHANGED <<emailVars, dispVars>>

\* if (!res.ok) throw new Error(data?.error || "Failed to send email")
StatusOf(r) ==
    IF r.status = 200 THEN StatusSuccess
    ELSE StatusError(IF r.error # "" THEN r.error ELSE MsgFailed)

\* the try block after the awaits, given the answer a
Handle(r, a) == Settle(r, Answer(a), StatusOf(a))

\* the Dispatcher answers a POST of the Composer
ServerResponds ==
    \E r \in BagToSet(inflight) :
        LET h == PostUntilSend(r, env)
        IN  IF h.kind = "respond" THEN Handle(r, h.resp)
            ELSE \/ \E id \in MessageIds :
                       Handle(r, AfterSend(
                           [kind |-> "ok", messageId |-> id, error |-> Error("")]))
                 \/ \E m \in TransportErrors :
                       Handle(r, AfterSend(
                           [kind |-> "fail", messageId |-> "", error |-> Error(m)]))

\* fetch rejects: the network fails
FetchFails ==
    \E r \in BagToSet(inflight) : Settle(r, Rejected(MsgFetch), StatusError(MsgFetch))

\* res.json() rejects: the response body is no JSON
BodyUnparseable ==
    \E r \in BagToSet(inflight) : Settle(r, Rejected(MsgJson), StatusError(MsgJson))

\* a non-2xx response whose body carries no error string
ErrorWithoutText ==
    \E r \in BagToSet(inflight) :
        Handle(r, Response(502, FALSE, "", ""))

-----------------------------------------------------------------------------
(* Specifications *)

\* the Dispatcher, under every SMTP configuration
Init ==
    /\ env \in Envs
    /\ DispIdle
    /\ CompIdle
    /\ EmailInit

Next == Receive \/ SendMailResolve \/ SendMailReject \/ Return

Spec == Init /\ [][Next]_vars

\* the e-mail predicate on every text of bounded length
InitEmail ==
    /\ EmailInit
    /\ env = Configured
    /\ DispIdle
    /\ CompIdle

NextEmail == TypeChar /\ UNCHANGED <<dispVars, compVars>>

SpecEmail == InitEmail /\ [][NextEmail]_vars

\* the Composer, against a configured and an unconfigured server
ComposerEnvs == {Configured, [Configured EXCEPT !.host = Undef]}

InitComposer ==
    /\ env \in ComposerEnvs
    /\ DispIdle
    /\ CompIdle
    /\ EmailInit

NextComposer ==
    \/ SetFrom \/ SetSubject \/ SetInput \/ Add \/ Remove
    \/ ClickSubmit \/ SubmitEvent
    \/ ServerResponds \/ FetchFails \/ BodyUnparseable \/ ErrorWithoutText

SpecComposer == InitComposer /\ [][NextComposer]_vars

\* the Composer as its user drives it: the form is submitted by the button
\* (a click, or Enter in a field, which submits only through an enabled button)
NextUser ==
    \/ SetFrom \/ SetSubject \/ SetInput \/ Add \/ Remove
    \/ ClickSubmit
    \/ ServerResponds \/ FetchFails \/ BodyUnparseable \/ ErrorWithoutText

SpecUser == InitComposer /\ [][NextUser]_vars

-----------------------------------------------------------------------------
(* Claims about the Dispatcher (specification Spec) *)

\* the request's `to` is a string or a list of strings
StringOrStrings(v) ==
    \/ v.t = "str"
    \/ v.t = "arr" /\ \A i \in 1..Len(v.l) : v.l[i].t = "str"

\* the normalisation the specification describes: split on commas, trim
\* every piece, drop the empty pieces, whatever the shape
RECURSIVE NormalisedList(_)
NormalisedList(l) ==
    IF l = <<>> THEN <<>>
    ELSE SplitTrimFilter(Head(l).s) \o NormalisedList(Tail(l))
Normalised(v) ==
    IF v.t = "str" THEN SplitTrimFilter(v.s)
    ELSE IF v.t = "arr" /\ StringOrStrings(v) THEN NormalisedList(v.l)
    ELSE <<>>

\* the handler got past both validation tests of POST
PassesValidation(r) ==
    LET p == ParseRequest(r)
        f == p.fields
    IN  /\ ~p.threw
        /\ f.from.t = "str" /\ IsValidEmail(f.from.s)
        /\ f.to.t = "arr" /\ Len(f.to.l) > 0
        /\ \A i \in 1..Len(f.to.l) :
              f.to.l[i].t = "str" /\ IsValidEmail(f.to.l[i].s)

\* C1: whatever the encoding, a `to` given as a comma-joined string or as a
\* list of strings is split on commas, trimmed and stripped of empty pieces:
\* the recipient list the handler validates, and hands to the transport, is
\* the normalised list.
C1_ToNormalisedInEveryEncoding ==
    (pc # "idle" /\ req.body = "ok" /\ StringOrStrings(req.to)
        /\ ~ParseRequest(req).threw)
    => /\ ParseRequest(req).fields.to = StrArr(Normalised(req.to))
       /\ (pc = "sending" => mail.recipients = Normalised(req.to))

\* the body and its attachments parse, `from` is absent or a string, `to` is
\* absent, a string or a list of strings
WellShaped(r) ==
    /\ r.body = "ok"
    /\ ~ParseRequest(r).threw
    /\ r.from.t \in {"undef", "null", "str"}
    /\ r.to.t \in {"undef", "null"} \/ StringOrStrings(r.to)

\* `from` is missing or fails the predicate
FromOffends(r) == r.from.t # "str" \/ ~IsValidEmail(r.from.s)
\* `to` is empty or holds an entry that fails the predicate
ToOffends(r) ==
    \/ Normalised(r.to) = <<>>
    \/ \E i \in 1..Len(Normalised(r.to)) : ~IsValidEmail(Normalised(r.to)[i])

\* C2: a request whose `from` is missing or invalid, or whose `to` is empty
\* or holds an invalid entry, is answered 400 with a message naming an
\* offending field, and no transport is constructed or called for it.
C2_InvalidFieldsAnswered400 ==
    (pc # "idle" /\ WellShaped(req) /\ (FromOffends(req) \/ ToOffends(req)))
    => /\ pc = "done"
       /\ resp.status = 400
       /\ resp.error \in (IF FromOffends(req) THEN {MsgFrom} ELSE {})
                            \cup (IF ToOffends(req) THEN {MsgTo} ELSE {})
       /\ ~created
       /\ sendCalls = 0

\* one of SMTP_HOST, SMTP_USER, SMTP_PASS is absent from the environment
ConfigAbsent == env.host = Undef \/ env.user = Undef \/ env.pass = Undef

\* C3: a request that passes validation while SMTP_HOST, SMTP_USER or
\* SMTP_PASS is absent is answered 500 with the configuration error, and no
\* transport is constructed or called for it.
C3_MissingConfigAnswered500 ==
    (pc # "idle" /\ PassesValidation(req) /\ ConfigAbsent)
    => /\ pc = "done"
       /\ resp = Response(500, FALSE, "", MsgConfig)
       /\ ~created
       /\ sendCalls = 0
       /\ mail = NoMail

C3_Witness ==
    /\ pc = "done" /\ PassesValidation(req)
    /\ env.pass = Undef /\ Truthy(env.host) /\ Truthy(env.user)
    /\ resp.status = 500

\* C4: when the send fails, the response is 500 and its error string is the
\* failure's message text; the send was attempted once, and no request
\* causes more than one sendMail call.
C4_SendFailureForwardedOnce ==
    /\ sendCalls <= 1
    /\ outcome.kind = "fail"
         => /\ pc = "done"
            /\ sendCalls = 1
            /\ resp.status = 500
            /\ resp.success = FALSE
            /\ resp.error = outcome.error.message

C4_Witness ==
    /\ pc = "done" /\ outcome.kind = "fail"
    /\ resp.error = "Invalid login: 535"

\* C5: the response is 200 {success: true, messageId} exactly when the one
\* send of the request completed, with the identifier the transport
\* assigned; a request that failed validation, lacked configuration or whose
\* send failed is never answered 200.
C5_SuccessIffSent ==
    pc = "done"
    => /\ resp.status = 200 <=> outcome.kind = "ok"
       /\ resp.status = 200
            => /\ resp.success
               /\ resp.messageId = outcome.messageId
               /\ resp.messageId \in MessageIds
               /\ sendCalls = 1
               /\ PassesValidation(req)
               /\ Truthy(env.host) /\ Truthy(env.user) /\ Truthy(env.pass)

C5_Witness ==
    /\ pc = "done" /\ resp.status = 200
    /\ resp.messageId = "<id-2@x.co>"

\* the attachments the request submits: its file parts, or the objects of
\* its JSON list
Submitted(r) == SelectSeq(r.att.items, LAMBDA e : e.kind \in {"file", "obj"})

\* C6: the attachment list handed to the transport holds one entry per
\* attachment of the request, in request order, each with the original
\* filename and with the bytes submitted.
C6_AttachmentsPreserved ==
    sendCalls = 1
    => /\ Len(mail.attachments) = Len(Submitted(req))
       /\ \A i \in 1..Len(Submitted(req)) :
             /\ mail.attachments[i].filename = Submitted(req)[i].filename
             /\ mail.attachments[i].content = Submitted(req)[i].bytes

C6_Witness ==
    /\ pc = "done" /\ resp.status = 200 /\ req.enc = "json"
    /\ Len(Submitted(req)) = 1
    /\ Len(mail.attachments) = 1
    /\ mail.attachments[1].filename = NameF
    /\ mail.attachments[1].content = <<255, 77>>

\* C7: a 500 is answered only for missing SMTP configuration or for a
\* failure of the transport, never for the shape of the body or of the
\* `from` and `to` fields.
C7_Only500ForConfigOrTransport ==
    (pc = "done" /\ resp.status = 500)
    => \/ outcome.kind = "fail"
       \/ /\ resp.error = MsgConfig
          /\ ~Truthy(env.host) \/ ~Truthy(env.user) \/ ~Truthy(env.pass)

-----------------------------------------------------------------------------
(* Claims about the e-mail predicate (specification SpecEmail) *)

AllIn(s, S) == \A i \in 1..Len(s) : s[i] \in S

\* s has the form local@domain.tld: the local part is dot-separated
\* non-empty runs of [A-Za-z0-9_'^&+-], the domain is dot-separated non-empty
\* labels of [A-Za-z0-9-], the last of them two or more letters
HasEmailForm(s) ==
    LET ats == {i \in 1..Len(s) : s[i] = "@"}
    IN  /\ Cardinality(ats) = 1
        /\ LET k == CHOOSE i \in ats : TRUE
               runs == Split(SubSeq(s, 1, k - 1), ".")
               labels == Split(SubSeq(s, k + 1, Len(s)), ".")
           IN  /\ \A i \in 1..Len(runs) :
                     runs[i] # <<>> /\ AllIn(runs[i], LocalChars)
               /\ Len(labels) >= 2
               /\ \A i \in 1..Len(labels) :
                     labels[i] # <<>> /\ AllIn(labels[i], DomainChars)
               /\ Len(labels[Len(labels)]) >= 2
               /\ AllIn(labels[Len(labels)], Letters)

\* a.b+c@sub.example.co, a@b, a@@b.com
Example1 ==
    <<"a",".","b","+","c","@","s","u","b",".",
      "e","x","a","m","p","l","e",".","c","o">>
Example2 == <<"a","@","b">>
Example3 == <<"a","@","@","b",".","c","o","m">>

\* the predicate on the three examples of the claim
ExamplesAsClaimed ==
    /\ IsValidEmail(Example1)
    /\ ~IsValidEmail(Example2)
    /\ ~IsValidEmail(Example3)

\* C8 as stated: the predicate accepts a text exactly when the text itself
\* has the form local@domain.tld.
C8_AcceptsIffTextHasForm == accepted <=> HasEmailForm(email)

\* C8 as amended: the predicate accepts a text exactly when the text without
\* its leading and trailing whitespace has the form local@domain.tld; the
\* three examples of the claim come out as it says.
C8_AcceptsIffTrimmedHasForm ==
    /\ accepted <=> HasEmailForm(Trim(email))
    /\ ExamplesAsClaimed

C8_Witness ==
    /\ accepted
    /\ Len(email) = 7
    /\ email[1] = " "

-----------------------------------------------------------------------------
(* Claims about the Composer (specification SpecComposer) *)

\* the elements of s at the indices I, in index order
RECURSIVE TakeAt(_, _)
TakeAt(s, I) ==
    IF I = {} THEN <<>>
    ELSE <<s[SetMin(I)]>> \o TakeAt(s, I \ {SetMin(I)})

\* the comma-separated pieces of the text, trimmed, the empty ones dropped
PiecesOf(text) ==
    LET parts == Split(text, ",")
    IN  TakeAt([i \in 1..Len(parts) |-> Trim(parts[i])],
               {i \in 1..Len(parts) : Trim(parts[i]) # <<>>})

\* the pieces a commit appends to the list old: those that are valid, not
\* in old, and not an earlier piece of the same text
Appended(old, text) ==
    LET pieces == PiecesOf(text)
    IN  TakeAt(pieces,
               {i \in 1..Len(pieces) :
                   /\ IsValidEmail(pieces[i])
                   /\ pieces[i] \notin Range(old)
                   /\ \A j \in 1..(i - 1) : pieces[j] # pieces[i]})

\* the committed list holds trimmed, valid addresses, none of them twice
CommittedListClean ==
    /\ \A i \in 1..Len(to) : to[i] = Trim(to[i]) /\ IsValidEmail(to[i])
    /\ \A i, j \in 1..Len(to) : to[i] = to[j] => i = j

\* C9: after any sequence of commits and removals the committed list holds
\* only trimmed valid addresses, none twice; a commit appends, in input
\* order, exactly the pieces that are valid and not yet present, keeps the
\* earlier entries and their order, and changes nothing else; committing
\* "x@y.com, bad, z@y.com" on the empty list gives <<x@y.com, z@y.com>>.
C9_CommitKeepsListClean ==
    /\ []CommittedListClean
    /\ [][ev' = "add"
            => /\ to' = to \o Appended(to, input)
               /\ status' = status
               /\ (to = <<>> /\ input = TagExample) => to' = <<AddrX, AddrZ>>]_vars

C9_Witness ==
    /\ ev = "add"
    /\ to = <<AddrZ, AddrX>>
    /\ input = <<>>

\* the three conditions of the claim
SubmitConditions ==
    /\ IsValidEmail(from)
    /\ to # <<>>
    /\ \A i \in 1..Len(to) : IsValidEmail(to[i])
    /\ Trim(subject) # <<>>

\* C10: the submit button is enabled only when `from` is valid, `to` is
\* non-empty with every entry valid and the subject is not blank; where one
\* of these fails, a submit attempt issues no request and leaves isSending
\* and status as they are.
C10_SubmitOnlyWhenValid ==
    /\ [](ButtonEnabled => SubmitConditions)
    /\ [][(ev' = "submit" /\ ~SubmitConditions)
            => /\ inflight' = inflight
               /\ isSending' = isSending
               /\ status' = status]_vars

C10_Witness ==
    /\ ev = "submit"
    /\ IsValidEmail(from) /\ to # <<>>
    /\ subject = Space
    /\ inflight = EmptyBag
    /\ ~isSending

-----------------------------------------------------------------------------
(* Claims about the Composer's requests (specification SpecComposer) *)

\* the request whose await ended in this step
SettledIn(b, b2) == {r \in BagToSet(b) : CopiesIn(r, b2) < CopiesIn(r, b)}

\* every response the Dispatcher can give to request r under configuration e
ServerAnswers(r, e) ==
    LET h == PostUntilSend(r, e)
    IN  IF h.kind = "respond" THEN {h.resp}
        ELSE {AfterSend([kind |-> "ok", messageId |-> id, error |-> Error("")]) :
                  id \in MessageIds}
             \cup {AfterSend([kind |-> "fail", messageId |-> "", error |-> Error(m)]) :
                  m \in TransportErrors}

\* what the client is to show for what its awaits produced: success for a 2xx
\* answer, the server's string for a non-2xx answer that carries one, and an
\* error in every other case
ShownAsClaimed ==
    IF res.kind = "answer" /\ res.status = 200 THEN status.type = "success"
    ELSE IF res.kind = "answer" /\ res.error # "" THEN status = StatusError(res.error)
    ELSE status.type = "error"

\* C11: every submission that issued the POST ends, when its request resolves
\* or fails in any way, with the status set to success or error and isSending
\* cleared; the client is never in the sending state with no request pending;
\* a non-2xx answer with an error string is shown as that string, success is
\* shown only for a 2xx answer, and the answer handled is one the Dispatcher
\* gives to the request that was pending.
C11_EverySubmissionEndsWithStatus ==
    /\ [](ev = "settled" => status.type \in {"success", "error"} /\ ~isSending)
    /\ [](ev = "settled" => ShownAsClaimed)
    /\ [](isSending => inflight # EmptyBag)
    /\ [][(ev' = "settled" /\ res'.kind = "answer" /\ res'.status # 502)
            => \E r \in SettledIn(inflight, inflight') :
                   \E a \in ServerAnswers(r, env) : res' = Answer(a)]_vars

\* a transport failure's text, forwarded by the Dispatcher, is on display
C11_Witness ==
    /\ ev = "settled"
    /\ res = [kind |-> "answer", status |-> 500, error |-> "Invalid login: 535"]
    /\ status = StatusError("Invalid login: 535")
    /\ ~isSending
    /\ inflight = EmptyBag

-----------------------------------------------------------------------------
(* The recipients handed to the transport (specification Spec) *)

\* no entry of the list occurs twice
Unique(l) == \A i, j \in 1..Len(l) : l[i] = l[j] => i = j

\* C12: the recipient list of every message handed to sendMail is non-empty
\* and names no address twice, for every request that passes validation.
C12_RecipientsUnique ==
    sendCalls > 0 => /\ mail.recipients # <<>>
                     /\ Unique(mail.recipients)


-----------------------------------------------------------------------------
(* The Composer's request at the Dispatcher (specification SpecComposer) *)

\* the list of strings that a JavaScript array of strings holds
Strings(v) == [i \in 1..Len(v.l) |-> v.l[i].s]

\* the request r goes through parseRequest and the tests of `from` and `to`,
\* and the recipients derived from it are the list l
AcceptedWith(r, l) ==
    LET p == ParseRequest(r)
    IN  /\ ~p.threw
        /\ IsValidEmail(JsString(p.fields.from))
        /\ p.fields.to.t = "arr"
        /\ Strings(p.fields.to) = l
        /\ l # <<>>
        /\ \A i \in 1..Len(l) : IsValidEmail(l[i])
        /\ \A e \in ComposerEnvs : PostUntilSend(r, e).resp.status # 400

\* C13: whenever submit is enabled, the multipart request the Composer builds
\* passes the Dispatcher's tests of `from` and `to` and the recipient list the
\* Dispatcher derives from it is the committed list, entry for entry; so is
\* every request in flight, and no Composer request is answered with 400.
C13_ClientAndServerAgree ==
    /\ CanSubmit => AcceptedWith(BuildForm, to)
    /\ \A r \in BagToSet(inflight) :
           /\ r.enc = "multipart"
           /\ AcceptedWith(r, Strings(ParseRequest(r).fields.to))
    /\ (res.kind = "answer" => res.status # 400)

\* two recipients and a From with a leading space went through
C13_Witness ==
    /\ CanSubmit
    /\ Len(to) = 2
    /\ from = Space \o AddrA
    /\ ev = "settled"
    /\ status = StatusSuccess

-----------------------------------------------------------------------------
(* The Composer's pending request (specification SpecUser) *)

\* C14: at most one request of the Composer is in flight at any time: while
\* isSending is set exactly one POST is pending and the button is disabled,
\* and when it is clear none is, whatever the user does in between.
C14_AtMostOneInFlight ==
    /\ BagCardinality(inflight) <= 1
    /\ isSending <=> inflight # EmptyBag
    /\ isSending => ~ButtonEnabled

\* a request is pending, the form would pass the submit test, and the user
\* has gone on working in the form
C14_Witness ==
    /\ isSending
    /\ BagCardinality(inflight) = 1
    /\ CanSubmit
    /\ ev = "add"
    /\ BuildForm \notin BagToSet(inflight)
=============================================================================
